---- MODULE Spec2Model ----
(***************************************************************************)
(* Waypoint-constrained shortest-path solver of maze-eval-toolkit          *)
(* (agent-maze-evals/claude-code/final_solver.py): the wall-based movement *)
(* model (can_move, move), the breadth-first single-pair search (bfs_path) *)
(* and the waypoint router (path_through_waypoints).                       *)
(*                                                                         *)
(* Python values are modelled as follows.  A point (x, y) is the tuple     *)
(* <<x, y>> (Python index 0 is TLA+ index 1).  grid[y][x]['walls'][f] is   *)
(* grid[y][x].walls[f] with rows and columns indexed from 0.  A list is a  *)
(* sequence.  The result of bfs_path is a record: None is                  *)
(* [found |-> FALSE, path |-> <<>>] and a list p is                        *)
(* [found |-> TRUE, path |-> p].                                           *)
(***************************************************************************)
EXTENDS Integers, Sequences, FiniteSets, TLC

\* ------------------------------------------------------------------ bounds
\* Largest grid width, height and number of cells drawn by Init, the longest
\* waypoint list, and the largest sum of the number of cells and the number
\* of waypoints of one input.
MaxW == 3
MaxH == 2
MaxCells == 4
MaxWaypoints == 2
MaxSize == 5
\* Batches: mazes per batch and cells per maze.
MaxMazes == 2
MaxBatchCells == 2
\* Interleaved solves: number of calls, and cells plus waypoints of a call.
MaxSolves == 2
MaxConcSize == 3

VARIABLES
    grid, width, height,      \* the maze: maze['grid'], maze['width'], maze['height']
    start, goal, waypoints,   \* arguments of path_through_waypoints
    pc,                       \* position in path_through_waypoints / bfs_path
    all_points, idx,          \* the list iterated by the for loop and the index of `target` in it
    current, full_path,       \* locals of path_through_waypoints
    caller,                   \* which call of bfs_path is running: "loop" (line 52) or "final" (line 59)
    bfs_start, bfs_end,       \* arguments start, end of the running bfs_path call
    queue, visited,           \* locals of bfs_path
    segment,                  \* value returned by the last bfs_path call
    result,                   \* value returned by path_through_waypoints
    attempts,                 \* history: one record per target processed by the for loop:
                              \* the target, `current` and full_path before it, whether its
                              \* segment was found, and the length of full_path after it
    mazes, maze_i,            \* solve_mazes.main: the list `mazes` and the index of `maze` in it
    solutions,                \* solve_mazes.main: the dict `solutions`
    solution_json,            \* the content of solution.json
    batch_pc,                 \* position in solve_mazes.main
    searched,                 \* history: per maze id, the maze last solved under that id and
                              \* the value solve_maze_bfs returned for it
    as_maze, as_waypoints,    \* analyze_and_solve: `maze` and `waypoints` of one maze block
    as_i, as_full_path,       \* locals i, full_path of its find_path_through_waypoints
    as_path,                  \* the block's variable `path`
    as_solutions,             \* analyze_and_solve: the dict `solutions`
    as_pc,                    \* position in the maze block
    as_searches,              \* history: the pairs find_path_through_waypoints searched
    solves                    \* interleaved calls of path_through_waypoints over the shared
                              \* grid: per call, its arguments and locals

vars == <<grid, width, height, start, goal, waypoints, pc, all_points, idx,
          current, full_path, caller, bfs_start, bfs_end, queue, visited,
          segment, result, attempts,
          mazes, maze_i, solutions, solution_json, batch_pc, searched,
          as_maze, as_waypoints, as_i, as_full_path, as_path, as_solutions,
          as_pc, as_searches, solves>>

\* The variables of solve_mazes.main and of the interleaved calls.
batch == <<mazes, maze_i, solutions, solution_json, batch_pc, searched>>
analysis == <<as_maze, as_waypoints, as_i, as_full_path, as_path, as_solutions,
              as_pc, as_searches>>
others == <<batch, analysis, solves>>

\* A dict with no key.
EmptyDict == [k \in {} |-> <<>>]

\* solve_mazes.main is not running.
BatchIdle ==
    /\ mazes = <<>>
    /\ maze_i = 0
    /\ solutions = EmptyDict
    /\ solution_json = EmptyDict
    /\ batch_pc = "idle"
    /\ searched = EmptyDict

\* No maze block of analyze_and_solve is running.
AnalysisIdle ==
    /\ as_maze = <<>>
    /\ as_waypoints = <<>>
    /\ as_i = 0
    /\ as_full_path = <<>>
    /\ as_path = [found |-> FALSE, path |-> <<>>]
    /\ as_solutions = EmptyDict
    /\ as_pc = "idle"
    /\ as_searches = <<>>

\* No batch, no maze block and no interleaved call is running.
OthersIdle ==
    /\ BatchIdle
    /\ AnalysisIdle
    /\ solves = <<>>

\* ------------------------------------------------------------ move vocabulary
\* Mutants of Directions: RIGHT is missing; the order is reversed.
Directions_noRight == <<"UP", "DOWN", "LEFT">>

Directions_reversed == <<"RIGHT", "LEFT", "DOWN", "UP">>

\* The direction list iterated by bfs_path, in its order.
Directions == <<"UP", "DOWN", "LEFT", "RIGHT">>

DirSet == {"UP", "DOWN", "LEFT", "RIGHT"}

\* can_move's table from a direction to the wall flag it tests.
moves == [UP |-> "top", DOWN |-> "bottom", LEFT |-> "left", RIGHT |-> "right"]

\* Mutant of deltas: the y axis points up.
deltas_flipped == [UP |-> <<0, 1>>, DOWN |-> <<0, -1>>, LEFT |-> <<-1, 0>>, RIGHT |-> <<1, 0>>]

\* move's table from a direction to its coordinate delta.
deltas == [UP |-> <<0, -1>>, DOWN |-> <<0, 1>>, LEFT |-> <<-1, 0>>, RIGHT |-> <<1, 0>>]

\* Mutant of can_move: the flag tested is the one the cell entered holds
\* towards the cell left, when the cell entered is inside the grid.
can_move_dest(g, x, y, direction, w, h) ==
    IF y < 0 \/ y >= h \/ x < 0 \/ x >= w
    THEN FALSE
    ELSE LET nx == x + (CASE direction = "LEFT" -> -1 [] direction = "RIGHT" -> 1 [] OTHER -> 0)
             ny == y + (CASE direction = "UP" -> -1 [] direction = "DOWN" -> 1 [] OTHER -> 0)
             back == CASE direction = "UP" -> "bottom" [] direction = "DOWN" -> "top"
                       [] direction = "LEFT" -> "right" [] direction = "RIGHT" -> "left"
         IN  IF ny < 0 \/ ny >= h \/ nx < 0 \/ nx >= w
             THEN FALSE
             ELSE ~g[ny][nx].walls[back]

can_move(g, x, y, direction, w, h) ==
    IF y < 0 \/ y >= h \/ x < 0 \/ x >= w
    THEN FALSE
    ELSE LET cell == g[y][x]
             walls == cell.walls
         IN  ~walls[moves[direction]]

move(x, y, direction) ==
    LET dx == deltas[direction][1]
        dy == deltas[direction][2]
    IN  <<x + dx, y + dy>>

\* ------------------------------------------------------------------ bfs_path
None == [found |-> FALSE, path |-> <<>>]

Found(p) == [found |-> TRUE, path |-> p]

\* The deque and the visited set bfs_path starts with.
bfs_init(s) == [queue |-> <<<<s[1], s[2], <<>>>>>>, visited |-> {s}]

\* Mutant of expand: the cell entered is not tested against the grid bounds.
RECURSIVE expand_nobounds(_, _, _, _, _, _, _, _)
expand_nobounds(g, w, h, x, y, path, st, i) ==
    IF i > Len(Directions)
    THEN st
    ELSE LET direction == Directions[i]
             new == move(x, y, direction)
             st2 == IF can_move(g, x, y, direction, w, h) /\ new \notin st.visited
                    THEN [queue   |-> Append(st.queue, <<new[1], new[2], Append(path, direction)>>),
                          visited |-> st.visited \cup {new}]
                    ELSE st
         IN  expand_nobounds(g, w, h, x, y, path, st2, i + 1)

\* Mutant of expand: the cell entered is not added to the visited set.
RECURSIVE expand_novisit(_, _, _, _, _, _, _, _)
expand_novisit(g, w, h, x, y, path, st, i) ==
    IF i > Len(Directions)
    THEN st
    ELSE LET direction == Directions[i]
             new == move(x, y, direction)
             st2 == IF /\ can_move(g, x, y, direction, w, h)
                       /\ new \notin st.visited
                       /\ 0 <= new[1] /\ new[1] < w
                       /\ 0 <= new[2] /\ new[2] < h
                    THEN [queue   |-> Append(st.queue, <<new[1], new[2], Append(path, direction)>>),
                          visited |-> st.visited]
                    ELSE st
         IN  expand_novisit(g, w, h, x, y, path, st2, i + 1)

\* The body of `for direction in [...]` for the directions i.. of the list,
\* applied to the queue and visited set st after (x, y, path) was popped.
RECURSIVE expand(_, _, _, _, _, _, _, _)
expand(g, w, h, x, y, path, st, i) ==
    IF i > Len(Directions)
    THEN st
    ELSE LET direction == Directions[i]
             new == move(x, y, direction)
             new_x == new[1]
             new_y == new[2]
             st2 == IF /\ can_move(g, x, y, direction, w, h)
                       /\ <<new_x, new_y>> \notin st.visited
                       /\ 0 <= new_x /\ new_x < w
                       /\ 0 <= new_y /\ new_y < h
                    THEN [queue   |-> Append(st.queue, <<new_x, new_y, Append(path, direction)>>),
                          visited |-> st.visited \cup {<<new_x, new_y>>}]
                    ELSE st
         IN  expand(g, w, h, x, y, path, st2, i + 1)

\* One iteration of `while queue` that does not return: pop the head and
\* expand it.
bfs_expand_head(g, w, h, st) ==
    LET head == Head(st.queue)
    IN  expand(g, w, h, head[1], head[2], head[3],
               [queue |-> Tail(st.queue), visited |-> st.visited], 1)

\* The while loop of bfs_path from the queue and visited set st.
RECURSIVE bfs_loop(_, _, _, _, _)
bfs_loop(g, w, h, end, st) ==
    IF st.queue = <<>>
    THEN None
    ELSE LET head == Head(st.queue)
         IN  IF <<head[1], head[2]>> = end
             THEN Found(head[3])
             ELSE bfs_loop(g, w, h, end, bfs_expand_head(g, w, h, st))

bfs_path(g, w, h, s, end) == bfs_loop(g, w, h, end, bfs_init(s))

\* ---------------------------------------------------- path_through_waypoints
\* The for loop of path_through_waypoints over all_points[i..], from the
\* locals st = [current, full_path].
RECURSIVE route_loop(_, _, _, _, _, _)
route_loop(g, w, h, pts, i, st) ==
    IF i > Len(pts)
    THEN st
    ELSE LET target == pts[i]
             seg == bfs_path(g, w, h, st.current, target)
         IN  route_loop(g, w, h, pts, i + 1,
                        IF seg.found
                        THEN [current |-> target, full_path |-> st.full_path \o seg.path]
                        ELSE st)

path_through_waypoints(g, w, h, s, wps, gl) ==
    LET pts == <<s>> \o wps \o <<gl>>
        st == route_loop(g, w, h, pts, 2, [current |-> s, full_path |-> <<>>])
        final == bfs_path(g, w, h, st.current, gl)
    IN  IF st.current # gl /\ final.found /\ final.path # <<>>
        THEN st.full_path \o final.path
        ELSE st.full_path

\* ------------------------------------------------------ detailed_analysis.py
\* detailed_analysis.py has its own can_move, bfs_path and router.
da_can_move(g, x, y, direction, w, h) ==
    IF y < 0 \/ y >= h \/ x < 0 \/ x >= w
    THEN FALSE
    ELSE LET cell == g[y][x]
             walls == cell.walls
         IN  IF direction = "UP" THEN ~walls.top
             ELSE IF direction = "DOWN" THEN ~walls.bottom
             ELSE IF direction = "LEFT" THEN ~walls.left
             ELSE IF direction = "RIGHT" THEN ~walls.right
             ELSE FALSE

\* The direction list of detailed_analysis.bfs_path.
da_directions == <<"UP", "DOWN", "LEFT", "RIGHT">>

\* The body of `for direction in directions` of detailed_analysis.bfs_path.
RECURSIVE da_expand(_, _, _, _, _, _, _, _)
da_expand(g, w, h, x, y, path, st, i) ==
    IF i > Len(da_directions)
    THEN st
    ELSE LET direction == da_directions[i]
             new_x == IF direction = "LEFT" THEN x - 1
                      ELSE IF direction = "RIGHT" THEN x + 1 ELSE x
             new_y == IF direction = "UP" THEN y - 1
                      ELSE IF direction = "DOWN" THEN y + 1 ELSE y
             st2 == IF /\ da_can_move(g, x, y, direction, w, h)
                       /\ <<new_x, new_y>> \notin st.visited
                       /\ 0 <= new_x /\ new_x < w
                       /\ 0 <= new_y /\ new_y < h
                    THEN [queue   |-> Append(st.queue, <<new_x, new_y, Append(path, direction)>>),
                          visited |-> st.visited \cup {<<new_x, new_y>>}]
                    ELSE st
         IN  da_expand(g, w, h, x, y, path, st2, i + 1)

RECURSIVE da_bfs_loop(_, _, _, _, _)
da_bfs_loop(g, w, h, end, st) ==
    IF st.queue = <<>>
    THEN None
    ELSE LET head == Head(st.queue)
         IN  IF <<head[1], head[2]>> = end
             THEN Found(head[3])
             ELSE da_bfs_loop(g, w, h, end,
                              da_expand(g, w, h, head[1], head[2], head[3],
                                        [queue |-> Tail(st.queue), visited |-> st.visited], 1))

da_bfs_path(g, w, h, s, end) ==
    da_bfs_loop(g, w, h, end, [queue |-> <<<<s[1], s[2], <<>>>>>>, visited |-> {s}])

\* The for loop of detailed_analysis.find_path_through_waypoints over
\* all_points[i..], from the locals st = [current, full_path].
RECURSIVE da_route_loop(_, _, _, _, _, _)
da_route_loop(g, w, h, pts, i, st) ==
    IF i > Len(pts)
    THEN st
    ELSE LET next_point == pts[i]
             seg == da_bfs_path(g, w, h, st.current, next_point)
         IN  da_route_loop(g, w, h, pts, i + 1,
                           IF ~seg.found
                           THEN st
                           ELSE [current |-> next_point, full_path |-> st.full_path \o seg.path])

da_find_path_through_waypoints(g, w, h, s, wps, gl) ==
    da_route_loop(g, w, h, <<s>> \o wps \o <<gl>>, 2,
                  [current |-> s, full_path |-> <<>>]).full_path

\* ------------------------------------------------------------------- inputs
Dims == {d \in (1..MaxW) \X (1..MaxH) : d[1] * d[2] <= MaxCells}

Cells(w, h) == (0..(w - 1)) \X (0..(h - 1))

\* Start and goal are cells of the grid or the out-of-range point left of
\* cell (0,0); waypoints are cells of the grid or a far out-of-range point.
EndPoints(w, h) == Cells(w, h) \cup {<<-1, 0>>}

WaypointPoints(w, h) == Cells(w, h) \cup {<<5, 5>>}

WallRec == [top : BOOLEAN, bottom : BOOLEAN, left : BOOLEAN, right : BOOLEAN]

\* The flags of the grid that face its border.
BorderFlags(g, w, h) ==
    {g[0][x].walls.top : x \in 0..(w - 1)} \cup
    {g[h - 1][x].walls.bottom : x \in 0..(w - 1)} \cup
    {g[y][0].walls.left : y \in 0..(h - 1)} \cup
    {g[y][w - 1].walls.right : y \in 0..(h - 1)}

\* Grids of the model: every combination of the flags between cells (wall
\* flags need not agree between neighbours), with the border either walled
\* all around or open all around.
Grids(w, h) ==
    {g \in [0..(h - 1) -> [0..(w - 1) -> [walls : WallRec]]] :
        Cardinality(BorderFlags(g, w, h)) = 1}

WaypointLists(w, h) ==
    UNION {[1..n -> WaypointPoints(w, h)] :
              n \in {m \in 0..MaxWaypoints : (w * h) + m <= MaxSize}}

\* ------------------------------------------------------------ state machine
Init ==
    /\ \E d \in Dims :
          /\ width = d[1]
          /\ height = d[2]
          /\ grid \in Grids(d[1], d[2])
          /\ start \in EndPoints(d[1], d[2])
          /\ goal \in EndPoints(d[1], d[2])
          /\ waypoints \in WaypointLists(d[1], d[2])
    /\ pc = "entry"
    /\ all_points = <<>>
    /\ idx = 0
    /\ current = <<0, 0>>
    /\ full_path = <<>>
    /\ caller = "none"
    /\ bfs_start = <<0, 0>>
    /\ bfs_end = <<0, 0>>
    /\ queue = <<>>
    /\ visited = {}
    /\ segment = None
    /\ result = <<>>
    /\ attempts = <<>>
    /\ OthersIdle

inputs == <<grid, width, height, start, goal, waypoints>>

\* path_through_waypoints lines 47-49.
Enter ==
    /\ pc = "entry"
    /\ all_points' = <<start>> \o waypoints \o <<goal>>
    /\ full_path' = <<>>
    /\ current' = start
    /\ idx' = 2
    /\ pc' = "loop"
    /\ UNCHANGED <<others, inputs, caller, bfs_start, bfs_end, queue, visited, segment, result, attempts>>

\* Lines 51-52 and 29-30: the loop takes its next target and calls bfs_path.
LoopCall ==
    /\ pc = "loop"
    /\ idx <= Len(all_points)
    /\ caller' = "loop"
    /\ bfs_start' = current
    /\ bfs_end' = all_points[idx]
    /\ queue' = bfs_init(current).queue
    /\ visited' = bfs_init(current).visited
    /\ pc' = "bfs"
    /\ UNCHANGED <<others, inputs, all_points, idx, current, full_path, segment, result, attempts>>

\* Mutant of BfsIter: the cell popped is marked in the grid by setting its
\* top flag.
BfsIter_marking ==
    /\ pc = "bfs"
    /\ queue # <<>>
    /\ LET head == Head(queue)
           st == bfs_expand_head(grid, width, height, [queue |-> queue, visited |-> visited])
       IN  /\ grid' = IF can_move(grid, head[1], head[2], "UP", width, height)
                      THEN [grid EXCEPT ![head[2]][head[1]].walls.top = TRUE]
                      ELSE grid
           /\ IF <<head[1], head[2]>> = bfs_end
              THEN /\ segment' = Found(head[3])
                   /\ queue' = Tail(queue)
                   /\ visited' = visited
                   /\ pc' = "ret"
              ELSE /\ queue' = st.queue
                   /\ visited' = st.visited
                   /\ segment' = segment
                   /\ pc' = "bfs"
    /\ UNCHANGED <<others, width, height, start, goal, waypoints, all_points, idx, current,
                   full_path, caller, bfs_start, bfs_end, result, attempts>>

\* Mutant of BfsIter: the head is expanded before it is compared with end.
BfsIter_expandFirst ==
    /\ pc = "bfs"
    /\ queue # <<>>
    /\ LET head == Head(queue)
           st == bfs_expand_head(grid, width, height, [queue |-> queue, visited |-> visited])
       IN  /\ queue' = st.queue
           /\ visited' = st.visited
           /\ IF <<head[1], head[2]>> = bfs_end
              THEN segment' = Found(head[3]) /\ pc' = "ret"
              ELSE segment' = segment /\ pc' = "bfs"
    /\ UNCHANGED <<others, inputs, all_points, idx, current, full_path, caller, bfs_start, bfs_end, result, attempts>>

\* Mutant of BfsIter: the entry popped is compared with end only when its
\* path is not empty.
BfsIter_skipStart ==
    /\ pc = "bfs"
    /\ queue # <<>>
    /\ LET head == Head(queue)
           st == bfs_expand_head(grid, width, height, [queue |-> queue, visited |-> visited])
       IN  IF head[3] # <<>> /\ <<head[1], head[2]>> = bfs_end
           THEN /\ segment' = Found(head[3])
                /\ queue' = Tail(queue)
                /\ visited' = visited
                /\ pc' = "ret"
           ELSE /\ queue' = st.queue
                /\ visited' = st.visited
                /\ segment' = segment
                /\ pc' = "bfs"
    /\ UNCHANGED <<others, inputs, all_points, idx, current, full_path, caller, bfs_start, bfs_end, result, attempts>>

\* Lines 32-42: one iteration of `while queue`.
BfsIter ==
    /\ pc = "bfs"
    /\ queue # <<>>
    /\ LET head == Head(queue)
           st == bfs_expand_head(grid, width, height, [queue |-> queue, visited |-> visited])
       IN  IF <<head[1], head[2]>> = bfs_end
           THEN /\ segment' = Found(head[3])
                /\ queue' = Tail(queue)
                /\ visited' = visited
                /\ pc' = "ret"
           ELSE /\ queue' = st.queue
                /\ visited' = st.visited
                /\ segment' = segment
                /\ pc' = "bfs"
    /\ UNCHANGED <<others, inputs, all_points, idx, current, full_path, caller, bfs_start, bfs_end, result, attempts>>

\* Line 43: the queue is empty, bfs_path returns None.
BfsNone ==
    /\ pc = "bfs"
    /\ queue = <<>>
    /\ segment' = None
    /\ pc' = "ret"
    /\ UNCHANGED <<others, inputs, all_points, idx, current, full_path, caller, bfs_start, bfs_end, queue, visited, result, attempts>>

\* Mutants of LoopReturn: `current` advances to a target that was not
\* found; `current` does not advance to a target that was found.
LoopReturn_advance ==
    /\ pc = "ret"
    /\ caller = "loop"
    /\ full_path' = IF segment.found THEN full_path \o segment.path ELSE full_path
    /\ current' = all_points[idx]
    /\ attempts' = Append(attempts,
                          [target |-> all_points[idx], from |-> current,
                           before |-> full_path, found |-> segment.found,
                           at |-> Len(full_path')])
    /\ idx' = idx + 1
    /\ pc' = "loop"
    /\ UNCHANGED <<others, inputs, all_points, caller, bfs_start, bfs_end, queue, visited, segment, result>>

LoopReturn_stay ==
    /\ pc = "ret"
    /\ caller = "loop"
    /\ full_path' = IF segment.found THEN full_path \o segment.path ELSE full_path
    /\ current' = current
    /\ attempts' = Append(attempts,
                          [target |-> all_points[idx], from |-> current,
                           before |-> full_path, found |-> segment.found,
                           at |-> Len(full_path')])
    /\ idx' = idx + 1
    /\ pc' = "loop"
    /\ UNCHANGED <<others, inputs, all_points, caller, bfs_start, bfs_end, queue, visited, segment, result>>

\* Lines 53-55: the loop takes the segment of its target.
LoopReturn ==
    /\ pc = "ret"
    /\ caller = "loop"
    /\ IF segment.found
       THEN /\ full_path' = full_path \o segment.path
            /\ current' = all_points[idx]
       ELSE UNCHANGED <<full_path, current>>
    /\ attempts' = Append(attempts,
                          [target |-> all_points[idx], from |-> current,
                           before |-> full_path, found |-> segment.found,
                           at |-> Len(full_path')])
    /\ idx' = idx + 1
    /\ pc' = "loop"
    /\ UNCHANGED <<others, inputs, all_points, caller, bfs_start, bfs_end, queue, visited, segment, result>>

\* Mutant of FinalCheck: the search after the loop starts from start.
FinalCheck_fromStart ==
    /\ pc = "loop"
    /\ idx > Len(all_points)
    /\ IF current # goal
       THEN /\ caller' = "final"
            /\ bfs_start' = start
            /\ bfs_end' = goal
            /\ queue' = bfs_init(start).queue
            /\ visited' = bfs_init(start).visited
            /\ pc' = "bfs"
            /\ result' = result
       ELSE /\ result' = full_path
            /\ pc' = "done"
            /\ UNCHANGED <<caller, bfs_start, bfs_end, queue, visited>>
    /\ UNCHANGED <<others, inputs, all_points, idx, current, full_path, segment, attempts>>

\* Lines 58-59 and 63: after the loop, search the goal once more or return.
FinalCheck ==
    /\ pc = "loop"
    /\ idx > Len(all_points)
    /\ IF current # goal
       THEN /\ caller' = "final"
            /\ bfs_start' = current
            /\ bfs_end' = goal
            /\ queue' = bfs_init(current).queue
            /\ visited' = bfs_init(current).visited
            /\ pc' = "bfs"
            /\ result' = result
       ELSE /\ result' = full_path
            /\ pc' = "done"
            /\ UNCHANGED <<caller, bfs_start, bfs_end, queue, visited>>
    /\ UNCHANGED <<others, inputs, all_points, idx, current, full_path, segment, attempts>>

\* Lines 60-63: `if final:` is false for None and for the empty list.
FinalReturn ==
    /\ pc = "ret"
    /\ caller = "final"
    /\ full_path' = IF segment.found /\ segment.path # <<>>
                    THEN full_path \o segment.path
                    ELSE full_path
    /\ result' = full_path'
    /\ pc' = "done"
    /\ UNCHANGED <<others, inputs, all_points, idx, current, caller, bfs_start, bfs_end, queue, visited, segment, attempts>>

Next ==
    \/ Enter
    \/ LoopCall
    \/ BfsIter
    \/ BfsNone
    \/ LoopReturn
    \/ FinalCheck
    \/ FinalReturn

Spec == Init /\ [][Next]_vars

\* ----------------------------------------------------------- solve_mazes.py
\* solve_mazes.py has its own can_move; a direction outside the four falls
\* through the chain to `return False`.
solve_mazes_can_move(g, x, y, direction, w, h) ==
    IF y < 0 \/ y >= h \/ x < 0 \/ x >= w
    THEN FALSE
    ELSE LET cell == g[y][x]
             walls == cell.walls
         IN  IF direction = "UP" THEN ~walls.top
             ELSE IF direction = "DOWN" THEN ~walls.bottom
             ELSE IF direction = "LEFT" THEN ~walls.left
             ELSE IF direction = "RIGHT" THEN ~walls.right
             ELSE FALSE

get_new_position(x, y, direction) ==
    IF direction = "UP" THEN <<x, y - 1>>
    ELSE IF direction = "DOWN" THEN <<x, y + 1>>
    ELSE IF direction = "LEFT" THEN <<x - 1, y>>
    ELSE IF direction = "RIGHT" THEN <<x + 1, y>>
    ELSE <<x, y>>

\* The value of a maze key that the maze dict does not have.
Absent == <<>>

\* maze.get('start', {'x': 0, 'y': 0}) and
\* maze.get('end', {'x': width - 1, 'y': height - 1}).
get_start(maze) ==
    IF maze.start = Absent THEN <<0, 0>> ELSE maze.start

\* Mutant of get_end: the default target is one past the last cell.
get_end_size(maze) ==
    IF maze.end = Absent THEN <<maze.width, maze.height>> ELSE maze.end

get_end(maze) ==
    IF maze.end = Absent THEN <<maze.width - 1, maze.height - 1>> ELSE maze.end

\* The direction list of solve_maze_bfs.
solve_maze_directions == <<"UP", "DOWN", "LEFT", "RIGHT">>

\* The body of `for direction in directions` of solve_maze_bfs.
RECURSIVE solve_maze_expand(_, _, _, _, _, _, _, _)
solve_maze_expand(g, w, h, x, y, path, st, i) ==
    IF i > Len(solve_maze_directions)
    THEN st
    ELSE LET direction == solve_maze_directions[i]
             new == get_new_position(x, y, direction)
             st2 == IF /\ solve_mazes_can_move(g, x, y, direction, w, h)
                       /\ new \notin st.visited
                       /\ 0 <= new[1] /\ new[1] < w
                       /\ 0 <= new[2] /\ new[2] < h
                    THEN [queue   |-> Append(st.queue, <<new[1], new[2], Append(path, direction)>>),
                          visited |-> st.visited \cup {new}]
                    ELSE st
         IN  solve_maze_expand(g, w, h, x, y, path, st2, i + 1)

RECURSIVE solve_maze_loop(_, _, _, _, _)
solve_maze_loop(g, w, h, end, st) ==
    IF st.queue = <<>>
    THEN None
    ELSE LET head == Head(st.queue)
         IN  IF head[1] = end[1] /\ head[2] = end[2]
             THEN Found(head[3])
             ELSE solve_maze_loop(g, w, h, end,
                                  solve_maze_expand(g, w, h, head[1], head[2], head[3],
                                                    [queue |-> Tail(st.queue), visited |-> st.visited], 1))

solve_maze_bfs(maze) ==
    LET s == get_start(maze)
        e == get_end(maze)
    IN  solve_maze_loop(maze.grid, maze.width, maze.height, e,
                        [queue |-> <<<<s[1], s[2], <<>>>>>>, visited |-> {s}])

\* `if solution:`: None and the empty list are both false.
Truthy(solution) == solution.found /\ solution.path # <<>>

\* solutions[key] = value on a dict.
DictSet(dict, key, value) ==
    [k \in (DOMAIN dict) \cup {key} |-> IF k = key THEN value ELSE dict[k]]

\* Batches of the model: at most MaxMazes mazes of at most MaxBatchCells
\* cells; the keys 'start' and 'end' may be missing, and 'end' may be the
\* out-of-range point left of cell (0,0).
MazeIds == {"a", "b"}

BatchDims == {d \in Dims : d[1] * d[2] <= MaxBatchCells}

Mazes ==
    UNION {[id : MazeIds, width : {d[1]}, height : {d[2]},
            grid : Grids(d[1], d[2]),
            start : Cells(d[1], d[2]) \cup {Absent},
            end : EndPoints(d[1], d[2]) \cup {Absent}] : d \in BatchDims}

\* The single call of path_through_waypoints is not running.
CallIdle ==
    /\ start = <<0, 0>> /\ goal = <<0, 0>> /\ waypoints = <<>>
    /\ pc = "idle"
    /\ all_points = <<>> /\ idx = 0 /\ current = <<0, 0>> /\ full_path = <<>>
    /\ caller = "none" /\ bfs_start = <<0, 0>> /\ bfs_end = <<0, 0>>
    /\ queue = <<>> /\ visited = {} /\ segment = None
    /\ result = <<>> /\ attempts = <<>>

\* No maze is loaded for path_through_waypoints and no call of it is running.
SolverIdle ==
    /\ grid = <<>> /\ width = 0 /\ height = 0
    /\ CallIdle

solver == <<grid, width, height, start, goal, waypoints, pc, all_points, idx,
            current, full_path, caller, bfs_start, bfs_end, queue, visited,
            segment, result, attempts>>

\* solve_mazes.main after get_all_mazes: `solutions = {}`.
InitBatch ==
    /\ SolverIdle
    /\ AnalysisIdle
    /\ solves = <<>>
    /\ mazes \in UNION {[1..n -> Mazes] : n \in 1..MaxMazes}
    /\ mazes[1].id = "a"
    /\ maze_i = 1
    /\ solutions = EmptyDict
    /\ solution_json = EmptyDict
    /\ batch_pc = "loop"
    /\ searched = EmptyDict

\* One iteration of `for maze in mazes` (lines 104-128).
MainIter ==
    /\ batch_pc = "loop"
    /\ maze_i <= Len(mazes)
    /\ LET maze == mazes[maze_i]
           maze_id == maze.id
           solution == solve_maze_bfs(maze)
       IN  /\ solutions' = IF Truthy(solution)
                           THEN DictSet(solutions, maze_id, solution.path)
                           ELSE DictSet(solutions, maze_id, <<>>)
           /\ searched' = DictSet(searched, maze_id, [maze |-> maze, solution |-> solution])
    /\ maze_i' = maze_i + 1
    /\ UNCHANGED <<solver, analysis, solves, mazes, solution_json, batch_pc>>

\* Lines 130-132: json.dump(solutions, f) after the loop.
MainDump ==
    /\ batch_pc = "loop"
    /\ maze_i > Len(mazes)
    /\ solution_json' = solutions
    /\ batch_pc' = "dumped"
    /\ UNCHANGED <<solver, analysis, solves, mazes, maze_i, solutions, searched>>

NextBatch ==
    \/ MainIter
    \/ MainDump

SpecBatch == InitBatch /\ [][NextBatch]_vars

\* ------------------------------------------------------- interleaved solves
\* Several calls of path_through_waypoints over one grid, interleaved step by
\* step.  A call is a record of its arguments and locals; the steps are those
\* of Enter .. FinalReturn, on the record of the call that takes the step.
new_call(s, wps, gl) ==
    [start |-> s, goal |-> gl, waypoints |-> wps, pc |-> "entry",
     all_points |-> <<>>, idx |-> 0, current |-> <<0, 0>>, full_path |-> <<>>,
     caller |-> "none", bfs_start |-> <<0, 0>>, bfs_end |-> <<0, 0>>,
     queue |-> <<>>, visited |-> {}, segment |-> None, result |-> <<>>]

\* Lines 47-49.
call_enter(c) ==
    [c EXCEPT !.all_points = <<c.start>> \o c.waypoints \o <<c.goal>>,
              !.full_path = <<>>, !.current = c.start, !.idx = 2, !.pc = "loop"]

\* Lines 51-52 and 29-30.
call_loop_call(c) ==
    [c EXCEPT !.caller = "loop", !.bfs_start = c.current,
              !.bfs_end = c.all_points[c.idx],
              !.queue = bfs_init(c.current).queue,
              !.visited = bfs_init(c.current).visited,
              !.pc = "bfs"]

\* Lines 32-42 with the given visited set.
call_bfs_iter_with(g, w, h, c, seen) ==
    LET head == Head(c.queue)
        st == bfs_expand_head(g, w, h, [queue |-> c.queue, visited |-> seen])
    IN  IF <<head[1], head[2]>> = c.bfs_end
        THEN [c EXCEPT !.segment = Found(head[3]), !.queue = Tail(c.queue), !.pc = "ret"]
        ELSE [c EXCEPT !.queue = st.queue, !.visited = st.visited]

\* Line 43.
call_bfs_none(c) == [c EXCEPT !.segment = None, !.pc = "ret"]

\* Lines 53-55.
call_loop_return(c) ==
    [c EXCEPT !.full_path = IF c.segment.found THEN c.full_path \o c.segment.path
                            ELSE c.full_path,
              !.current = IF c.segment.found THEN c.all_points[c.idx] ELSE c.current,
              !.idx = c.idx + 1, !.pc = "loop"]

\* Lines 58-59 and 63.
call_final_check(c) ==
    IF c.current # c.goal
    THEN [c EXCEPT !.caller = "final", !.bfs_start = c.current, !.bfs_end = c.goal,
                   !.queue = bfs_init(c.current).queue,
                   !.visited = bfs_init(c.current).visited,
                   !.pc = "bfs"]
    ELSE [c EXCEPT !.result = c.full_path, !.pc = "done"]

\* Lines 60-63.
call_final_return(c) ==
    LET fp == IF c.segment.found /\ c.segment.path # <<>>
              THEN c.full_path \o c.segment.path
              ELSE c.full_path
    IN  [c EXCEPT !.full_path = fp, !.result = fp, !.pc = "done"]

\* Interleaved solves of the model: MaxSolves calls over one grid of at most
\* MaxConcSize cells, each with start and goal among the cells and as many
\* waypoints as keep cells plus waypoints within MaxConcSize.
ConcDims == {d \in Dims : d[1] * d[2] <= MaxConcSize}

ConcCalls(w, h) ==
    {new_call(s, wps, gl) :
        s \in Cells(w, h), gl \in Cells(w, h),
        wps \in UNION {[1..n -> Cells(w, h)] : n \in 0..(MaxConcSize - (w * h))}}

InitConc ==
    /\ \E d \in ConcDims :
          /\ width = d[1]
          /\ height = d[2]
          /\ grid \in Grids(d[1], d[2])
          /\ solves \in [1..MaxSolves -> ConcCalls(d[1], d[2])]
    /\ CallIdle
    /\ BatchIdle
    /\ AnalysisIdle

\* What a step of one call leaves alone: the grid, the single call and the
\* batch.
shared == <<grid, width, height, start, goal, waypoints, pc, all_points, idx,
            current, full_path, caller, bfs_start, bfs_end, queue, visited,
            segment, result, attempts, batch, analysis>>

ConcEnter ==
    \E i \in DOMAIN solves :
        /\ solves[i].pc = "entry"
        /\ solves' = [solves EXCEPT ![i] = call_enter(solves[i])]
        /\ UNCHANGED shared

ConcLoopCall ==
    \E i \in DOMAIN solves :
        /\ solves[i].pc = "loop"
        /\ solves[i].idx <= Len(solves[i].all_points)
        /\ solves' = [solves EXCEPT ![i] = call_loop_call(solves[i])]
        /\ UNCHANGED shared

\* Mutant of ConcBfsIter: one visited set for all calls.
ConcBfsIter_sharedVisited ==
    \E i \in DOMAIN solves :
        /\ solves[i].pc = "bfs"
        /\ solves[i].queue # <<>>
        /\ solves' = [solves EXCEPT ![i] =
                         call_bfs_iter_with(grid, width, height, solves[i],
                                            UNION {solves[j].visited : j \in DOMAIN solves})]
        /\ UNCHANGED shared

ConcBfsIter ==
    \E i \in DOMAIN solves :
        /\ solves[i].pc = "bfs"
        /\ solves[i].queue # <<>>
        /\ solves' = [solves EXCEPT ![i] =
                         call_bfs_iter_with(grid, width, height, solves[i], solves[i].visited)]
        /\ UNCHANGED shared

ConcBfsNone ==
    \E i \in DOMAIN solves :
        /\ solves[i].pc = "bfs"
        /\ solves[i].queue = <<>>
        /\ solves' = [solves EXCEPT ![i] = call_bfs_none(solves[i])]
        /\ UNCHANGED shared

ConcLoopReturn ==
    \E i \in DOMAIN solves :
        /\ solves[i].pc = "ret"
        /\ solves[i].caller = "loop"
        /\ solves' = [solves EXCEPT ![i] = call_loop_return(solves[i])]
        /\ UNCHANGED shared

ConcFinalCheck ==
    \E i \in DOMAIN solves :
        /\ solves[i].pc = "loop"
        /\ solves[i].idx > Len(solves[i].all_points)
        /\ solves' = [solves EXCEPT ![i] = call_final_check(solves[i])]
        /\ UNCHANGED shared

ConcFinalReturn ==
    \E i \in DOMAIN solves :
        /\ solves[i].pc = "ret"
        /\ solves[i].caller = "final"
        /\ solves' = [solves EXCEPT ![i] = call_final_return(solves[i])]
        /\ UNCHANGED shared

NextConc ==
    \/ ConcEnter
    \/ ConcLoopCall
    \/ ConcBfsIter
    \/ ConcBfsNone
    \/ ConcLoopReturn
    \/ ConcFinalCheck
    \/ ConcFinalReturn

SpecConc == InitConc /\ [][NextConc]_vars

\* ------------------------------------------------------ analyze_and_solve.py
\* analyze_and_solve.py has its own can_move, get_new_position and bfs_path.
as_can_move(g, x, y, direction, w, h) ==
    IF y < 0 \/ y >= h \/ x < 0 \/ x >= w
    THEN FALSE
    ELSE LET cell == g[y][x]
             walls == cell.walls
         IN  IF direction = "UP" THEN ~walls.top
             ELSE IF direction = "DOWN" THEN ~walls.bottom
             ELSE IF direction = "LEFT" THEN ~walls.left
             ELSE IF direction = "RIGHT" THEN ~walls.right
             ELSE FALSE

as_get_new_position(x, y, direction) ==
    IF direction = "UP" THEN <<x, y - 1>>
    ELSE IF direction = "DOWN" THEN <<x, y + 1>>
    ELSE IF direction = "LEFT" THEN <<x - 1, y>>
    ELSE IF direction = "RIGHT" THEN <<x + 1, y>>
    ELSE <<x, y>>

\* The direction list of analyze_and_solve.bfs_path.
as_directions == <<"UP", "DOWN", "LEFT", "RIGHT">>

\* The body of `for direction in directions` of analyze_and_solve.bfs_path.
RECURSIVE as_expand(_, _, _, _, _, _, _, _)
as_expand(g, w, h, x, y, path, st, i) ==
    IF i > Len(as_directions)
    THEN st
    ELSE LET direction == as_directions[i]
             new == as_get_new_position(x, y, direction)
             st2 == IF /\ as_can_move(g, x, y, direction, w, h)
                       /\ new \notin st.visited
                       /\ 0 <= new[1] /\ new[1] < w
                       /\ 0 <= new[2] /\ new[2] < h
                    THEN [queue   |-> Append(st.queue, <<new[1], new[2], Append(path, direction)>>),
                          visited |-> st.visited \cup {new}]
                    ELSE st
         IN  as_expand(g, w, h, x, y, path, st2, i + 1)

RECURSIVE as_bfs_loop(_, _, _, _, _)
as_bfs_loop(g, w, h, end, st) ==
    IF st.queue = <<>>
    THEN None
    ELSE LET head == Head(st.queue)
         IN  IF <<head[1], head[2]>> = end
             THEN Found(head[3])
             ELSE as_bfs_loop(g, w, h, end,
                              as_expand(g, w, h, head[1], head[2], head[3],
                                        [queue |-> Tail(st.queue), visited |-> st.visited], 1))

as_bfs_path(g, w, h, s, end) ==
    as_bfs_loop(g, w, h, end, [queue |-> <<<<s[1], s[2], <<>>>>>>, visited |-> {s}])

\* Lines 51-55 of find_path_through_waypoints: start, goal and all_points.
as_start == as_maze.start

as_goal == as_maze.goal

as_all_points == <<as_start>> \o as_waypoints \o <<as_goal>>

\* Maze blocks of the model: a maze of at most MaxCells cells whose start is
\* a cell and whose goal is a cell or the out-of-range point left of cell
\* (0,0), with a waypoint list as for path_through_waypoints.
AnalysisMazes ==
    UNION {[id : {"a"}, width : {d[1]}, height : {d[2]},
            grid : Grids(d[1], d[2]),
            start : Cells(d[1], d[2]),
            goal : EndPoints(d[1], d[2])] : d \in Dims}

\* Line 157: find_path_through_waypoints(maze, waypoints) is called.
InitAnalysis ==
    /\ SolverIdle
    /\ BatchIdle
    /\ solves = <<>>
    /\ as_maze \in AnalysisMazes
    /\ as_waypoints \in WaypointLists(as_maze.width, as_maze.height)
    /\ as_i = 1
    /\ as_full_path = <<>>
    /\ as_path = None
    /\ as_solutions = EmptyDict
    /\ as_pc = "loop"
    /\ as_searches = <<>>

idle == <<solver, batch, solves>>

\* Mutant of FindSegment: an unreachable segment is skipped.
FindSegment_skip ==
    /\ as_pc = "loop"
    /\ as_i < Len(as_all_points)
    /\ LET from_point == as_all_points[as_i]
           to_point == as_all_points[as_i + 1]
           seg == as_bfs_path(as_maze.grid, as_maze.width, as_maze.height,
                              from_point, to_point)
       IN  /\ as_searches' = Append(as_searches, [from |-> from_point, to |-> to_point,
                                                  found |-> seg.found])
           /\ as_full_path' = IF seg.found THEN as_full_path \o seg.path ELSE as_full_path
           /\ as_i' = as_i + 1
           /\ UNCHANGED <<as_path, as_pc>>
    /\ UNCHANGED <<idle, as_maze, as_waypoints, as_solutions>>

\* Lines 58-65: one iteration of `for i in range(len(all_points) - 1)`.
FindSegment ==
    /\ as_pc = "loop"
    /\ as_i < Len(as_all_points)
    /\ LET from_point == as_all_points[as_i]
           to_point == as_all_points[as_i + 1]
           seg == as_bfs_path(as_maze.grid, as_maze.width, as_maze.height,
                              from_point, to_point)
       IN  /\ as_searches' = Append(as_searches, [from |-> from_point, to |-> to_point,
                                                  found |-> seg.found])
           /\ IF ~seg.found
              THEN /\ as_path' = None
                   /\ as_pc' = "returned"
                   /\ UNCHANGED <<as_full_path, as_i>>
              ELSE /\ as_full_path' = as_full_path \o seg.path
                   /\ as_i' = as_i + 1
                   /\ UNCHANGED <<as_path, as_pc>>
    /\ UNCHANGED <<idle, as_maze, as_waypoints, as_solutions>>

\* Line 67: `return full_path` after the loop.
FindReturn ==
    /\ as_pc = "loop"
    /\ as_i >= Len(as_all_points)
    /\ as_path' = Found(as_full_path)
    /\ as_pc' = "returned"
    /\ UNCHANGED <<idle, as_maze, as_waypoints, as_i, as_full_path, as_solutions, as_searches>>

\* Lines 158-160: `if path:` holds, the path is recorded.
RecordPath ==
    /\ as_pc = "returned"
    /\ Truthy(as_path)
    /\ as_solutions' = DictSet(as_solutions, as_maze.id, as_path.path)
    /\ as_pc' = "recorded"
    /\ UNCHANGED <<idle, as_maze, as_waypoints, as_i, as_full_path, as_path, as_searches>>

\* Lines 162-167: otherwise the direct bfs_path from start to goal is taken
\* and recorded, or [] when it is None or empty.
RecordDirect ==
    /\ as_pc = "returned"
    /\ ~Truthy(as_path)
    /\ LET direct == as_bfs_path(as_maze.grid, as_maze.width, as_maze.height,
                                 <<as_maze.start[1], as_maze.start[2]>>,
                                 <<as_maze.goal[1], as_maze.goal[2]>>)
       IN  /\ as_path' = direct
           /\ as_solutions' = DictSet(as_solutions, as_maze.id,
                                      IF Truthy(direct) THEN direct.path ELSE <<>>)
    /\ as_pc' = "recorded"
    /\ UNCHANGED <<idle, as_maze, as_waypoints, as_i, as_full_path, as_searches>>

NextAnalysis ==
    \/ FindSegment
    \/ FindReturn
    \/ RecordPath
    \/ RecordDirect

SpecAnalysis == InitAnalysis /\ [][NextAnalysis]_vars

\* ===================================================================== claims
\* The maze graph, read from the wall flags directly: a move in direction d
\* from p is permitted when p is a cell, p's flag for d is clear and the cell
\* entered is inside the grid.
InGrid(p) == p[1] >= 0 /\ p[1] < width /\ p[2] >= 0 /\ p[2] < height

WallSet(p, d) ==
    CASE d = "UP"    -> grid[p[2]][p[1]].walls.top
      [] d = "DOWN"  -> grid[p[2]][p[1]].walls.bottom
      [] d = "LEFT"  -> grid[p[2]][p[1]].walls.left
      [] d = "RIGHT" -> grid[p[2]][p[1]].walls.right

Dest(p, d) ==
    CASE d = "UP"    -> <<p[1], p[2] - 1>>
      [] d = "DOWN"  -> <<p[1], p[2] + 1>>
      [] d = "LEFT"  -> <<p[1] - 1, p[2]>>
      [] d = "RIGHT" -> <<p[1] + 1, p[2]>>

Permitted(p, d) == InGrid(p) /\ ~WallSet(p, d) /\ InGrid(Dest(p, d))

\* The points at most k permitted moves away from s.
RECURSIVE Ball(_, _)
Ball(s, k) ==
    IF k = 0
    THEN {s}
    ELSE LET B == Ball(s, k - 1)
         IN  B \cup {Dest(p, d) : <<p, d>> \in {pd \in B \X DirSet : Permitted(pd[1], pd[2])}}

Reachable(s, e) == e \in Ball(s, width * height)

\* The least number of permitted moves from s to e (for e reachable from s).
Dist(s, e) == CHOOSE k \in 0..(width * height) :
                  /\ e \in Ball(s, k)
                  /\ \A j \in 0..(k - 1) : e \notin Ball(s, j)

\* The point reached by the moves of path from p, and whether each move is
\* permitted where it is made.
RECURSIVE Replay(_, _)
Replay(p, path) ==
    IF path = <<>> THEN p ELSE Replay(Dest(p, Head(path)), Tail(path))

RECURSIVE AllPermitted(_, _)
AllPermitted(p, path) ==
    \/ path = <<>>
    \/ /\ Permitted(p, Head(path))
       /\ AllPermitted(Dest(p, Head(path)), Tail(path))

\* A call of bfs_path has just returned.
Returned == pc = "ret"

\* C1: a bfs_path call between two cells of the grid, the second reachable
\* from the first by permitted moves, returns a move sequence whose length
\* is the least number of permitted moves between them.
C1_ShortestLength ==
    (Returned /\ InGrid(bfs_start) /\ InGrid(bfs_end) /\ Reachable(bfs_start, bfs_end))
        => /\ segment.found
           /\ Len(segment.path) = Dist(bfs_start, bfs_end)

\* A search returned a route of two moves or more on a grid whose flags
\* disagree between two neighbours.
Inconsistent ==
    \E p \in Cells(width, height) : \E d \in DirSet :
        /\ InGrid(Dest(p, d))
        /\ WallSet(p, d) # WallSet(Dest(p, d),
                                   CASE d = "UP" -> "DOWN" [] d = "DOWN" -> "UP"
                                     [] d = "LEFT" -> "RIGHT" [] d = "RIGHT" -> "LEFT")

C1_Witness ==
    /\ Returned /\ InGrid(bfs_start) /\ InGrid(bfs_end)
    /\ segment.found /\ Len(segment.path) >= 2
    /\ Inconsistent

\* C2: replaying a move sequence returned by bfs_path from its start, every
\* move is permitted by the wall flag of the cell it leaves, every cell
\* entered is inside the grid (also when border flags are open), and the
\* replay ends on the end point.
C2_ReplaySound ==
    (Returned /\ segment.found)
        => /\ AllPermitted(bfs_start, segment.path)
           /\ Replay(bfs_start, segment.path) = bfs_end

BorderOpen == BorderFlags(grid, width, height) = {FALSE}

C2_Witness ==
    /\ Returned /\ segment.found /\ Len(segment.path) >= 2
    /\ BorderOpen

\* C4: bfs_path returns None exactly when no sequence of permitted moves
\* leads from start to end, and only once the queue is empty.
C4_NoneIffUnreachable ==
    Returned => /\ segment.found <=> Reachable(bfs_start, bfs_end)
                /\ ~segment.found => queue = <<>>

\* A search between two cells returned None after expanding cells.
C4_Witness ==
    /\ Returned /\ ~segment.found
    /\ InGrid(bfs_start) /\ InGrid(bfs_end)
    /\ Cardinality(visited) >= 2

\* C3 (as claimed): whenever some route of permitted moves leads from start
\* to goal, the sequence returned by path_through_waypoints, replayed from
\* start, ends at goal.
C3_GoalReached ==
    (pc = "done" /\ Reachable(start, goal)) => Replay(start, result) = goal

\* The attempt last recorded by the for loop.
LastAttempt == attempts[Len(attempts)]

AllWaypointsUnreachable ==
    \A i \in 1..Len(waypoints) : ~Reachable(start, waypoints[i])

\* A target whose search returned None leaves `current` and the output as
\* they were before it.
SkipFrame ==
    (pc = "loop" /\ attempts # <<>> /\ ~LastAttempt.found)
        => /\ current = LastAttempt.from
           /\ full_path = LastAttempt.before

\* C5 (as claimed, for start and goal inside the grid): a target whose
\* search returns None changes neither `current` nor the output, and a call
\* whose waypoints are all unreachable from start returns what the call
\* without waypoints returns, which is exactly the value of
\* bfs_path(start, goal).
C5_Original ==
    /\ SkipFrame
    /\ (pc = "done" /\ AllWaypointsUnreachable /\ InGrid(start) /\ InGrid(goal))
          => /\ result = path_through_waypoints(grid, width, height, start, <<>>, goal)
             /\ Found(result) = bfs_path(grid, width, height, start, goal)

\* C5 (amended): as above, where the common result is the sequence returned
\* by bfs_path(start, goal) when it finds one and the empty sequence when
\* it returns None.
C5_SkipUnreachable ==
    /\ SkipFrame
    /\ (pc = "done" /\ AllWaypointsUnreachable)
          => /\ result = path_through_waypoints(grid, width, height, start, <<>>, goal)
             /\ LET direct == bfs_path(grid, width, height, start, goal)
                IN  result = IF direct.found THEN direct.path ELSE <<>>

\* The 3x1 grid without internal walls, from (0,0) to (2,0) with the
\* waypoint (5,5): the waypoint was skipped and the goal reached.
C5_Witness ==
    /\ pc = "done"
    /\ width = 3 /\ height = 1
    /\ \A x \in 0..1 : ~grid[0][x].walls.right /\ ~grid[0][x + 1].walls.left
    /\ start = <<0, 0>> /\ goal = <<2, 0>> /\ waypoints = << <<5, 5>> >>
    /\ ~attempts[1].found
    /\ result = <<"RIGHT", "RIGHT">>

\* The cell the output trajectory stands on after its first i moves.
TrajAt(i) == Replay(start, SubSeq(result, 1, i))

\* The for loop attempted each target of the list once, in order.
AttemptedOnce ==
    /\ Len(attempts) = Len(waypoints) + 1
    /\ \A k \in 1..Len(waypoints) : attempts[k].target = waypoints[k]

\* The positions at which the reached targets are reached do not decrease.
ReachedInOrder ==
    /\ \A k \in 1..Len(attempts) :
          attempts[k].found => TrajAt(attempts[k].at) = attempts[k].target
    /\ \A j, k \in 1..Len(attempts) : j <= k => attempts[j].at <= attempts[k].at

\* C6 (as claimed): a waypoint lies on the output trajectory exactly when it
\* was reachable from `current` when it was attempted; the reached waypoints
\* are reached in list order; a skipped waypoint is not attempted again.
C6_Original ==
    pc = "done" =>
        /\ AttemptedOnce
        /\ ReachedInOrder
        /\ \A k \in 1..Len(waypoints) :
              (\E i \in 0..Len(result) : TrajAt(i) = waypoints[k])
                  <=> Reachable(attempts[k].from, waypoints[k])

\* C6 (amended): a waypoint lies on the part of the output trajectory that
\* starts where it was attempted exactly when it was reachable from
\* `current` at that moment (an earlier segment may have passed over a
\* waypoint that is skipped later); its attempt succeeds in exactly that
\* case; the reached waypoints are reached in list order; a skipped
\* waypoint is not attempted again.
C6_WaypointsInOrder ==
    pc = "done" =>
        /\ AttemptedOnce
        /\ ReachedInOrder
        /\ \A k \in 1..Len(waypoints) :
              /\ attempts[k].found <=> Reachable(attempts[k].from, waypoints[k])
              /\ (\E i \in Len(attempts[k].before)..Len(result) : TrajAt(i) = waypoints[k])
                     <=> Reachable(attempts[k].from, waypoints[k])

\* Two waypoints, the first reached by a segment that passes over the
\* second, the second skipped.
C6_Witness ==
    /\ pc = "done"
    /\ Len(waypoints) = 2
    /\ attempts[1].found /\ ~attempts[2].found
    /\ \E i \in 0..Len(result) : TrajAt(i) = waypoints[2]

\* C7: can_move is false for a point outside the grid and otherwise the
\* negation of the point's own flag for the direction; it does not depend on
\* the flags of any other cell.  (The grid never changes during a solve and
\* can_move reads nothing else of the state, so the property is evaluated
\* once for every grid of the model: on entry to its solve from (0,0) to
\* (0,0) without waypoints.)
OncePerGrid ==
    pc = "entry" /\ start = <<0, 0>> /\ goal = <<0, 0>> /\ waypoints = <<>>

C7_CanMove ==
    OncePerGrid =>
        \A x \in (-1)..width : \A y \in (-1)..height : \A d \in DirSet :
            /\ can_move(grid, x, y, d, width, height)
                   = (InGrid(<<x, y>>) /\ ~WallSet(<<x, y>>, d))
            /\ \A c \in Cells(width, height) \ {<<x, y>>} : \A r \in WallRec :
                   can_move([grid EXCEPT ![c[2]][c[1]].walls = r], x, y, d, width, height)
                       = can_move(grid, x, y, d, width, height)

\* A grid where cell (0,0) may be left to the right although the cell
\* entered has its left flag set.
C7_Witness ==
    /\ OncePerGrid
    /\ width >= 2
    /\ can_move(grid, 0, 0, "RIGHT", width, height)
    /\ grid[0][1].walls.left

\* The direction order of the tie-break.
DirRank(d) ==
    CASE d = "UP" -> 1 [] d = "DOWN" -> 2 [] d = "LEFT" -> 3 [] d = "RIGHT" -> 4

\* p is not greater than q in the lexicographic order on equally long
\* move sequences.
RECURSIVE LexLE(_, _)
LexLE(p, q) ==
    \/ p = <<>>
    \/ DirRank(Head(p)) < DirRank(Head(q))
    \/ /\ Head(p) = Head(q)
       /\ LexLE(Tail(p), Tail(q))

\* The routes of permitted moves from s to e of the least length.
ShortestRoutes(s, e) ==
    {q \in [1..Dist(s, e) -> DirSet] : AllPermitted(s, q) /\ Replay(s, q) = e}

\* C8: the sequence bfs_path returns is the lexicographically least, in the
\* order UP < DOWN < LEFT < RIGHT, of the shortest routes of permitted moves
\* from start to end; it is the value of bfs_path for these arguments.
C8_TieBreak ==
    (Returned /\ segment.found)
        => /\ segment.path \in ShortestRoutes(bfs_start, bfs_end)
           /\ \A q \in ShortestRoutes(bfs_start, bfs_end) : LexLE(segment.path, q)
           /\ segment = bfs_path(grid, width, height, bfs_start, bfs_end)

\* A search returned while two shortest routes or more exist.
C8_Witness ==
    /\ Returned /\ segment.found
    /\ Cardinality(ShortestRoutes(bfs_start, bfs_end)) >= 2

\* The 2x2 grid with every flag set except those of opens, a set of
\* <<cell, flag>> pairs.
Grid2x2(opens) ==
    [y \in 0..1 |-> [x \in 0..1 |->
        [walls |-> [f \in {"top", "bottom", "left", "right"} |->
                        <<<<x, y>>, f>> \notin opens]]]]

\* The grid of the scenario: (0,0).right and (1,1).top are clear.
LGrid == Grid2x2({<<<<0, 0>>, "right">>, <<<<1, 1>>, "top">>})

\* The same L with the flags of the cells that are left: (0,0).right and
\* (1,0).bottom are clear.
LGridDeparture == Grid2x2({<<<<0, 0>>, "right">>, <<<<1, 0>>, "bottom">>})

Scenario2x2(g) ==
    /\ pc = "done"
    /\ width = 2 /\ height = 2 /\ grid = g
    /\ start = <<0, 0>> /\ goal = <<1, 1>> /\ waypoints = <<>>

\* C9 (as claimed): on the 2x2 grid with every flag set except (0,0).right
\* and (1,1).top, from (0,0) to (1,1) without waypoints, the solver returns
\* [RIGHT, DOWN].
C9_Original == Scenario2x2(LGrid) => result = <<"RIGHT", "DOWN">>

\* C9 (amended): on that grid the solver returns the empty sequence, since
\* the bottom flag of (1,0) forbids the move DOWN from it; it returns
\* [RIGHT, DOWN] on the 2x2 grid with every flag set except (0,0).right and
\* (1,0).bottom.
C9_LShape ==
    /\ Scenario2x2(LGrid) => result = <<>>
    /\ Scenario2x2(LGridDeparture) => result = <<"RIGHT", "DOWN">>

C9_Witness == Scenario2x2(LGrid) /\ visited = {<<0, 0>>, <<1, 0>>}

\* A cell whose own four flags are all set.
Isolated(p) == InGrid(p) /\ \A d \in DirSet : WallSet(p, d)

\* Some cell may be left towards p.
OpensInto(p) ==
    \E q \in Cells(width, height) : \E d \in DirSet :
        Permitted(q, d) /\ Dest(q, d) = p

\* C10 (as claimed): bfs_path from a cell whose four flags are set to any
\* other cell returns None, and so does bfs_path from any other cell to it.
C10_Original ==
    (Returned /\ InGrid(bfs_start) /\ InGrid(bfs_end) /\ bfs_start # bfs_end)
        => /\ Isolated(bfs_start) => ~segment.found
           /\ Isolated(bfs_end) => ~segment.found

\* C10 (amended): bfs_path from a cell whose four flags are set to any other
\* cell returns None; bfs_path from another cell to it returns None when no
\* neighbouring cell's own flag towards it is clear, and returns the single
\* move into it from a neighbour whose flag towards it is clear.
C10_Isolated ==
    (Returned /\ InGrid(bfs_start) /\ InGrid(bfs_end) /\ bfs_start # bfs_end)
        => /\ Isolated(bfs_start) => ~segment.found
           /\ (Isolated(bfs_end) /\ ~OpensInto(bfs_end)) => ~segment.found
           /\ \A d \in DirSet :
                  (Isolated(bfs_end) /\ Permitted(bfs_start, d) /\ Dest(bfs_start, d) = bfs_end)
                      => segment = Found(<<d>>)

\* A search out of a cell whose four flags are set returned None although a
\* neighbour's flag towards that cell is clear.
C10_Witness ==
    /\ Returned /\ InGrid(bfs_end) /\ bfs_start # bfs_end
    /\ Isolated(bfs_start) /\ OpensInto(bfs_start)
    /\ ~segment.found

\* A call of bfs_path is running or has just returned.
InSearch == pc \in {"bfs", "ret"}

\* C11 (as claimed): a bfs_path call whose start or end lies outside the
\* grid returns None, and nothing is expanded towards or from the
\* out-of-range point: no out-of-range point other than start is visited,
\* and nothing is visited from an out-of-range start.
C11_OutOfRange ==
    (Returned /\ (~InGrid(bfs_start) \/ ~InGrid(bfs_end)))
        => /\ ~segment.found
           /\ \A p \in visited : InGrid(p) \/ p = bfs_start
           /\ ~InGrid(bfs_start) => visited = {bfs_start}

\* C12: bfs_path(p, p) returns the empty sequence for every point p, inside
\* the grid or not, and during the call no cell other than p enters the
\* visited set or the queue.
C12_ZeroLength ==
    (InSearch /\ bfs_start = bfs_end)
        => /\ visited = {bfs_start}
           /\ \A i \in 1..Len(queue) : <<queue[i][1], queue[i][2]>> = bfs_start
           /\ Returned => segment = Found(<<>>)

\* A search from a cell to itself returned although the cell may be left.
C12_Witness ==
    /\ Returned /\ bfs_start = bfs_end
    /\ \E d \in DirSet : Permitted(bfs_start, d)

\* The cells of the queue entries, in queue order.
QueueCells == [i \in 1..Len(queue) |-> <<queue[i][1], queue[i][2]>>]

\* During a search the queue holds pairwise distinct cells, all of them
\* visited, and no more of them than the grid has cells; the visited set
\* holds cells of the grid and the start.
QueueBounded ==
    InSearch
        => /\ \A i, j \in 1..Len(queue) : QueueCells[i] = QueueCells[j] => i = j
           /\ \A i \in 1..Len(queue) : QueueCells[i] \in visited
           /\ Len(queue) <= width * height
           /\ visited \subseteq Cells(width, height) \cup {bfs_start}

\* A natural number (while QueueBounded holds) that every iteration of
\* `while queue` decreases: twice the number of points not yet visited plus
\* the length of the queue.
Variant == 2 * ((width * height + 1) - Cardinality(visited)) + Len(queue)

\* C13: every bfs_path call terminates: each step of it keeps the queue a
\* list of pairwise distinct visited cells, at most width * height of them,
\* and each iteration of the loop either returns or decreases Variant.
C13_Terminates ==
    [][/\ QueueBounded'
       /\ pc = "bfs" => (pc' = "ret" \/ (Variant' < Variant /\ Variant' >= 0))]_vars

\* A search holds two cells in its queue.
C13_Witness == pc = "bfs" /\ Len(queue) >= 2

\* The target the for loop reached last, or start when it reached none.
RECURSIVE LastReachedUpTo(_)
LastReachedUpTo(k) ==
    IF k = 0 THEN start
    ELSE IF attempts[k].found THEN attempts[k].target
    ELSE LastReachedUpTo(k - 1)

LastReached == LastReachedUpTo(Len(attempts))

\* C14: path_through_waypoints always returns a sequence of directions, for
\* points inside and outside the grid; the
\* replay of the result from start ends on the target reached last (on
\* start when none was reached); when the goal was not reached the result
\* is exactly what was accumulated before the goal was attempted, and the
\* replay ends at goal exactly when the goal was reached.
C14_PartialResult ==
    pc = "done"
        => /\ \A i \in 1..Len(result) : result[i] \in DirSet
           /\ AllPermitted(start, result)
           /\ Replay(start, result) = LastReached
           /\ (Replay(start, result) = goal) <=> LastAttempt.found
           /\ ~LastAttempt.found => result = LastAttempt.before

\* A solve towards an out-of-range goal returned the moves to a waypoint.
C14_Witness ==
    /\ pc = "done"
    /\ ~InGrid(goal)
    /\ result # <<>>
    /\ Replay(start, result) = waypoints[Len(waypoints)]

\* C16: no step of bfs_path or path_through_waypoints changes the grid, its
\* width or its height.
C16_GridReadOnly ==
    [][grid' = grid /\ width' = width /\ height' = height]_vars

\* A solve that found some targets and not the goal has returned.
C16_Witness ==
    /\ pc = "done"
    /\ \E k \in 1..Len(attempts) : attempts[k].found /\ attempts[k].at > 0
    /\ ~LastAttempt.found

\* C19: from the start of the for loop on, replaying the accumulated output
\* from start by permitted moves ends on `current`, and `current` is start
\* or a target already attempted.
C19_CurrentInvariant ==
    pc # "entry"
        => /\ AllPermitted(start, full_path)
           /\ Replay(start, full_path) = current
           /\ \/ current = start
              \/ \E k \in 1..Len(attempts) : attempts[k].target = current

\* The loop stands on its first target after it skipped the second.
C19_Witness ==
    /\ pc = "loop"
    /\ Len(attempts) = 2
    /\ attempts[1].found /\ ~attempts[2].found
    /\ current # start

\* C18: when the search after the loop of final_solver.path_through_waypoints
\* returns, it returns None, as did the last iteration of the loop, which
\* searched from the same `current` to goal; the result of
\* path_through_waypoints is the result of
\* detailed_analysis.find_path_through_waypoints, which has no such search.
C18_FallbackIdle ==
    /\ (Returned /\ caller = "final")
          => /\ ~segment.found
             /\ ~LastAttempt.found
             /\ LastAttempt.from = bfs_start
             /\ LastAttempt.target = bfs_end
    /\ pc = "done"
          => result = da_find_path_through_waypoints(grid, width, height,
                                                     start, waypoints, goal)

\* The search after the loop returned in a solve that had reached a target
\* and whose goal can be reached from start.
C18_Witness ==
    /\ Returned /\ caller = "final"
    /\ full_path # <<>>
    /\ Reachable(start, goal)

\* The targets the for loop reached, in order, after start.
ReachedChain == <<start>> \o [k \in 1..Len(SelectSeq(attempts, LAMBDA a : a.found))
                                 |-> SelectSeq(attempts, LAMBDA a : a.found)[k].target]

\* The sum of the distances between consecutive points of the chain up to
\* its j-th point (a pair with no route counts as more than any route).
RECURSIVE ChainLength(_)
ChainLength(j) ==
    IF j <= 1 THEN 0
    ELSE ChainLength(j - 1)
         + (IF Reachable(ReachedChain[j - 1], ReachedChain[j])
            THEN Dist(ReachedChain[j - 1], ReachedChain[j])
            ELSE width * height + 1)

\* Walks from start, as pairs of the point they stand on and the number of
\* chain points they have visited in order so far.
RECURSIVE Progress(_, _)
Progress(p, j) ==
    IF j < Len(ReachedChain) /\ ReachedChain[j + 1] = p
    THEN Progress(p, j + 1)
    ELSE j

RECURSIVE WalkBall(_)
WalkBall(k) ==
    IF k = 0
    THEN {<<start, Progress(start, 0)>>}
    ELSE LET B == WalkBall(k - 1)
         IN  B \cup {<<Dest(pj[1], d), Progress(Dest(pj[1], d), pj[2])>> :
                        <<pj, d>> \in {x \in B \X DirSet : Permitted(x[1][1], x[2])}}

\* Some walk of at most k permitted moves from start visits the chain
\* points in order.
WalkVisitsChain(k) == \E pj \in WalkBall(k) : pj[2] = Len(ReachedChain)

\* C20: the length of the returned sequence is the sum of the distances
\* between consecutive reached points (start, then the reached targets in
\* order), and no shorter walk from start visits them in that order.
C20_SegmentSum ==
    pc = "done"
        => /\ Len(result) = ChainLength(Len(ReachedChain))
           /\ WalkVisitsChain(Len(result))
           /\ Len(result) > 0 => ~WalkVisitsChain(Len(result) - 1)

\* A solve through two reached waypoints to the goal, four moves or more.
C20_Witness ==
    /\ pc = "done"
    /\ Len(ReachedChain) = 4
    /\ Len(result) >= 4

\* The graph of one maze of a batch, read from its wall flags directly.
MazeCells(m) == {p \in (0..(m.width - 1)) \X (0..(m.height - 1)) : TRUE}

MazeWallSet(m, p, d) ==
    CASE d = "UP"    -> m.grid[p[2]][p[1]].walls.top
      [] d = "DOWN"  -> m.grid[p[2]][p[1]].walls.bottom
      [] d = "LEFT"  -> m.grid[p[2]][p[1]].walls.left
      [] d = "RIGHT" -> m.grid[p[2]][p[1]].walls.right

MazePermitted(m, p, d) ==
    p \in MazeCells(m) /\ ~MazeWallSet(m, p, d) /\ Dest(p, d) \in MazeCells(m)

RECURSIVE MazeBall(_, _, _)
MazeBall(m, s, k) ==
    IF k = 0
    THEN {s}
    ELSE LET B == MazeBall(m, s, k - 1)
         IN  B \cup {Dest(pd[1], pd[2]) :
                        pd \in {x \in B \X DirSet : MazePermitted(m, x[1], x[2])}}

MazeReachable(m, s, e) == e \in MazeBall(m, s, m.width * m.height)

\* The start and the target of a maze: its 'start' and 'end' keys, or the
\* top-left and bottom-right cells when the key is missing.
StartOf(m) == IF m.start = Absent THEN <<0, 0>> ELSE m.start

TargetOf(m) == IF m.end = Absent THEN <<m.width - 1, m.height - 1>> ELSE m.end

Dumped == batch_pc = "dumped"

\* C15 as stated: in the mapping written by solve_mazes.main, a maze has
\* the empty sequence only if the search from its start to its target
\* returned None.
C15_Original ==
    Dumped => \A id \in DOMAIN solution_json :
                  solution_json[id] = <<>> => ~searched[id].solution.found

\* C15, amended: in the mapping written by solve_mazes.main every solved
\* maze id has an entry; the entry is the empty sequence exactly when the
\* maze's target cannot be reached from its start or its start is its
\* target, that is, only if the search returned None or returned the empty
\* sequence because start equals target; every maze whose search returned
\* None has the empty sequence, and every other entry is the sequence the
\* search returned, which leads from start to target.
C15_EmptyRecord ==
    Dumped =>
        /\ DOMAIN solution_json = {mazes[i].id : i \in 1..Len(mazes)}
        /\ \A id \in DOMAIN solution_json :
              LET m == searched[id].maze
                  solution == searched[id].solution
                  s == StartOf(m)
                  e == TargetOf(m)
              IN  /\ solution_json[id] = <<>> <=> (~MazeReachable(m, s, e) \/ s = e)
                  /\ solution_json[id] = <<>> => (~solution.found \/ s = e)
                  /\ ~solution.found => solution_json[id] = <<>>
                  /\ solution_json[id] # <<>>
                        => /\ solution = Found(solution_json[id])
                           /\ Replay(s, solution_json[id]) = e

\* A written mapping with an empty sequence for a maze whose start is its
\* target, next to a maze with a route of at least one move.
C15_Witness ==
    /\ Dumped
    /\ \E id \in DOMAIN solution_json :
          /\ solution_json[id] = <<>>
          /\ searched[id].solution = Found(<<>>)
    /\ \E id \in DOMAIN solution_json : solution_json[id] # <<>>

\* The step a call takes next when it runs alone.
call_step(g, w, h, c) ==
    CASE c.pc = "entry" -> call_enter(c)
      [] c.pc = "loop" /\ c.idx <= Len(c.all_points) -> call_loop_call(c)
      [] c.pc = "loop" /\ c.idx > Len(c.all_points) -> call_final_check(c)
      [] c.pc = "bfs" /\ c.queue # <<>> -> call_bfs_iter_with(g, w, h, c, c.visited)
      [] c.pc = "bfs" /\ c.queue = <<>> -> call_bfs_none(c)
      [] c.pc = "ret" /\ c.caller = "loop" -> call_loop_return(c)
      [] c.pc = "ret" /\ c.caller = "final" -> call_final_return(c)
      [] OTHER -> c

\* The single call of Spec as a record of the interleaved model.
AsCall ==
    [start |-> start, goal |-> goal, waypoints |-> waypoints, pc |-> pc,
     all_points |-> all_points, idx |-> idx, current |-> current,
     full_path |-> full_path, caller |-> caller, bfs_start |-> bfs_start,
     bfs_end |-> bfs_end, queue |-> queue, visited |-> visited,
     segment |-> segment, result |-> result]

\* Under Spec, every step of the single call is the step call_step takes on
\* its record.
CallStepsAgree == [][AsCall' = call_step(grid, width, height, AsCall)]_vars

\* A call run alone from c passes through the state target within fuel
\* steps.
RECURSIVE AloneReaches(_, _, _)
AloneReaches(c, target, fuel) ==
    IF c = target THEN TRUE
    ELSE IF c.pc = "done" \/ fuel = 0 THEN FALSE
    ELSE \E next \in {call_step(grid, width, height, c)} :
             AloneReaches(next, target, fuel - 1)

\* No call takes more steps than this: entry, and per search its call, an
\* iteration per cell, the end of the loop and its return.
StepBound(c) == 2 + (Len(c.waypoints) + 2) * (width * height + 3)

\* Every interleaved call is in a state that the same call, run alone over
\* the grid, passes through, and a call that has returned has returned what
\* path_through_waypoints returns for its arguments.
CallsAsAlone ==
    \A i \in DOMAIN solves :
        LET c == solves[i]
        IN  /\ AloneReaches(new_call(c.start, c.waypoints, c.goal), c, StepBound(c))
            /\ c.pc = "done"
                  => c.result = path_through_waypoints(grid, width, height,
                                                       c.start, c.waypoints, c.goal)

\* C17: when calls of path_through_waypoints over one grid are interleaved
\* step by step in any order, no step changes the grid, every call goes
\* through the states it goes through when run alone, and every call
\* returns the sequence it returns when run alone.
C17_Interleaved ==
    /\ []CallsAsAlone
    /\ [][grid' = grid /\ width' = width /\ height' = height]_vars

\* One call has returned a sequence of moves while another call over the
\* same grid is in the middle of a search with two cells visited.
C17_Witness ==
    \E i, j \in DOMAIN solves :
        /\ i # j
        /\ solves[i].pc = "done" /\ solves[i].result # <<>>
        /\ solves[j].pc = "bfs" /\ Cardinality(solves[j].visited) >= 2
        /\ solves[j].start # solves[i].start

\* C21: a target of the for loop equal to `current` is reached with zero
\* moves: its search is found, the output keeps its length, `current` stays
\* on the target, and the next target is searched from it with the output
\* unchanged.
C21_ZeroMoveTarget ==
    \A k \in 1..Len(attempts) :
        attempts[k].target = attempts[k].from
            => /\ attempts[k].found
               /\ attempts[k].at = Len(attempts[k].before)
               /\ k < Len(attempts)
                     => /\ attempts[k + 1].from = attempts[k].target
                        /\ attempts[k + 1].before = attempts[k].before
               /\ (k = Len(attempts) /\ pc = "loop")
                     => /\ current = attempts[k].target
                        /\ full_path = attempts[k].before

\* A finished solve with a duplicated waypoint away from start: the second
\* copy is reached from the first with zero moves, and the goal is reached
\* from it with at least one move.
C21_Witness ==
    /\ pc = "done"
    /\ Len(attempts) = 3
    /\ attempts[1].target # start
    /\ attempts[1].found
    /\ attempts[2].target = attempts[1].target
    /\ attempts[2].from = attempts[1].target
    /\ attempts[3].found
    /\ attempts[3].at > attempts[2].at

\* The cell and the path of the i-th queue entry of the running search.
EntryCell(i) == <<queue[i][1], queue[i][2]>>

EntryPath(i) == queue[i][3]

\* C22: during a bfs_path call, the path of every queue entry is a sequence
\* of permitted moves from the start of the search to the entry's cell, no
\* shorter sequence of permitted moves leads there, the path lengths do not
\* decrease from the front of the queue to its back, and the last is at
\* most one more than the first.
C22_QueueInvariant ==
    InSearch
        => /\ \A i \in 1..Len(queue) :
                 /\ AllPermitted(bfs_start, EntryPath(i))
                 /\ Replay(bfs_start, EntryPath(i)) = EntryCell(i)
                 /\ EntryCell(i) \in Ball(bfs_start, Len(EntryPath(i)))
                 /\ Len(EntryPath(i)) > 0
                       => EntryCell(i) \notin Ball(bfs_start, Len(EntryPath(i)) - 1)
           /\ \A i, j \in 1..Len(queue) :
                 i < j => Len(EntryPath(i)) <= Len(EntryPath(j))
           /\ queue # <<>>
                 => Len(EntryPath(Len(queue))) <= Len(EntryPath(1)) + 1

\* A search whose queue holds entries of two consecutive path lengths, the
\* first of them at least one move from the start.
C22_Witness ==
    /\ pc = "bfs"
    /\ Len(queue) >= 2
    /\ Len(EntryPath(1)) >= 1
    /\ Len(EntryPath(Len(queue))) = Len(EntryPath(1)) + 1

\* The moves of path are permitted in maze m from p on.
RECURSIVE MazeAllPermitted(_, _, _)
MazeAllPermitted(m, p, path) ==
    \/ path = <<>>
    \/ /\ MazePermitted(m, p, Head(path))
       /\ MazeAllPermitted(m, Dest(p, Head(path)), Tail(path))

\* path is a sequence of permitted moves of maze m from s to e, and no
\* shorter one exists.
MazeShortest(m, s, e, path) ==
    /\ MazeAllPermitted(m, s, path)
    /\ Replay(s, path) = e
    /\ Len(path) > 0 => e \notin MazeBall(m, s, Len(path) - 1)

\* path is a concatenation of shortest segments of maze m between the
\* consecutive points pts[i], pts[i+1], ...
RECURSIVE ShortestSegments(_, _, _, _)
ShortestSegments(m, pts, i, path) ==
    IF i >= Len(pts)
    THEN path = <<>>
    ELSE \E n \in 0..Len(path) :
            /\ MazeShortest(m, pts[i], pts[i + 1], SubSeq(path, 1, n))
            /\ ShortestSegments(m, pts, i + 1, SubSeq(path, n + 1, Len(path)))

\* The segments final_solver.bfs_path returns between the consecutive
\* points pts[i], pts[i+1], ..., concatenated.
RECURSIVE SegmentsConcat(_, _, _)
SegmentsConcat(m, pts, i) ==
    IF i >= Len(pts)
    THEN <<>>
    ELSE bfs_path(m.grid, m.width, m.height, pts[i], pts[i + 1]).path
         \o SegmentsConcat(m, pts, i + 1)

\* The consecutive pairs of all_points with no route between them.
UnreachablePairs ==
    {i \in 1..(Len(as_all_points) - 1) :
        ~MazeReachable(as_maze, as_all_points[i], as_all_points[i + 1])}

AllSegmentsReachable == UnreachablePairs = {}

FirstUnreachable == CHOOSE i \in UnreachablePairs : \A j \in UnreachablePairs : i <= j

\* What the direct search from start to goal records.
DirectRecord ==
    IF MazeReachable(as_maze, as_start, as_goal)
    THEN bfs_path(as_maze.grid, as_maze.width, as_maze.height, as_start, as_goal).path
    ELSE <<>>

\* C23: analyze_and_solve.find_path_through_waypoints returns a sequence
\* exactly when every segment between consecutive points of
\* [start] + waypoints + [goal] has a route, and the sequence is then the
\* concatenation of shortest segments between them; otherwise it returns
\* None at the first segment without a route, having searched no later
\* segment.  The maze block records the returned sequence, or, when None
\* (or an empty sequence) was returned, the direct shortest sequence from
\* start to goal, or the empty sequence when there is none.
C23_AllOrNothing ==
    /\ as_pc = "returned"
          => /\ as_path.found <=> AllSegmentsReachable
             /\ AllSegmentsReachable
                   => /\ ShortestSegments(as_maze, as_all_points, 1, as_path.path)
                      /\ as_path.path = SegmentsConcat(as_maze, as_all_points, 1)
                      /\ Len(as_searches) = Len(as_all_points) - 1
             /\ ~AllSegmentsReachable
                   => /\ as_path = None
                      /\ Len(as_searches) = FirstUnreachable
             /\ \A k \in 1..Len(as_searches) :
                   /\ as_searches[k].from = as_all_points[k]
                   /\ as_searches[k].to = as_all_points[k + 1]
                   /\ as_searches[k].found <=> k \notin UnreachablePairs
    /\ as_pc = "recorded"
          => /\ DOMAIN as_solutions = {as_maze.id}
             /\ as_solutions[as_maze.id] =
                   IF AllSegmentsReachable /\ SegmentsConcat(as_maze, as_all_points, 1) # <<>>
                   THEN SegmentsConcat(as_maze, as_all_points, 1)
                   ELSE DirectRecord
             /\ ~AllSegmentsReachable
                   => \/ /\ ~MazeReachable(as_maze, as_start, as_goal)
                         /\ as_solutions[as_maze.id] = <<>>
                      \/ MazeShortest(as_maze, as_start, as_goal, as_solutions[as_maze.id])

\* A maze block whose second segment has no route, after a first segment of
\* at least one move, and which recorded the direct route to the goal.
C23_Witness ==
    /\ as_pc = "recorded"
    /\ ~AllSegmentsReachable
    /\ as_full_path # <<>>
    /\ as_solutions[as_maze.id] # <<>>

====
